---- MODULE Spec2Model ----
(***************************************************************************)
(* Model of the evaluation core of sho-bond: the text normalizer and the   *)
(* comparator (src/evaluators/comparator.py) and the metric calculators    *)
(* and error classifier (src/evaluators/metrics.py); and of the            *)
(* translation stage of the pipeline (src/main.py) with its translator     *)
(* (src/translators/felo_api.py).                                          *)
(*                                                                         *)
(* Representation.                                                         *)
(*  - A text (Python str) is a sequence of characters; a character is a    *)
(*    one-element TLA+ string, except the full-width space U+3000, which   *)
(*    is written "u3000".                                                  *)
(*  - A float that the code obtains by one division a / b is the reduced   *)
(*    fraction [num, den] (two divisions give equal floats exactly when    *)
(*    the fractions are equal, for the operand sizes modelled here).       *)
(*  - accuracy, which the code rounds to two decimals, is an integer       *)
(*    number of hundredths of a percent (10000 is 100.00).                 *)
(*  - bleu is the fraction P = p1*p2*p3*p4 of the four n-gram precisions;  *)
(*    the code's score is 100 * P^(1/4), a strictly increasing function of *)
(*    P with 0 |-> 0.0 and 1 |-> 100.0.                                    *)
(*  - Python None is the string "None"; the error labels of                *)
(*    _classify_error are written in English.                              *)
(*  - jiwer and sacrebleu are not part of the repository: calculate_wer,   *)
(*    calculate_cer and calculate_bleu are modelled on their built-in      *)
(*    (ImportError) branches.                                              *)
(***************************************************************************)
EXTENDS Integers, Sequences, FiniteSets, TLC

VARIABLES
    normalize,  \* TextComparator.normalize, set by __init__
    pc,         \* "idle": no call made yet; "done": the call has returned
    call,       \* the operation called and its arguments
    ret,        \* the value the call returned, or what it has built so far
    frames      \* the local variables of the calls in progress, by worker

vars == <<normalize, pc, call, ret, frames>>

(***************************************************************************)
(* Bounds of the model.                                                    *)
(***************************************************************************)
\* longest reference / hypothesis handed to compare and to the metrics
MaxLen == 3
\* longest text handed to _normalize_text on its own
MaxNormLen == 4
\* most pairs in one compare_batch call
MaxBatch == 2
\* calculate_accuracy on long texts: reference lengths up to
\* MaxLongK * 20000 + 2, edit distances up to MaxLongDist
MaxLongK == 2
MaxLongDist == 3
\* most results in one summarize call
MaxResults == 3
\* most words in a text handed to _simple_bleu
MaxWords == 5
\* most text pairs (audio files) in one run of the pipeline
MaxAudio == 3
\* most set_credentials calls on one translator, and most translate_audio calls
MaxCredentials == 2
MaxTranslations == 2

None == "None"

FullWidthSpace == "u3000"

\* the characters c with c.isspace() (and matched by \s) that the model uses
Whitespace == {" ", "\t", FullWidthSpace}

\* the characters of the texts handed to compare and to the metrics
Chars == {"a", "b", " "}

\* the characters of the texts handed to _normalize_text on its own
NormChars == {"a", "b"} \cup Whitespace

TextsUpTo(alphabet, n) == UNION {[1..k -> alphabet] : k \in 0..n}

Texts == TextsUpTo(Chars, MaxLen)

\* Texts of the demonstration data, a character U+hhhh written "uhhhh":
\* TEST_JAPANESE[0] and BEFORE_TRANSLATIONS[0] (14 and 13 characters, U+304F
\* U+3060 against U+4E0B), TEST_JAPANESE[6] and BEFORE_TRANSLATIONS[6] (U+914D
\* against U+6392), and TEST_JAPANESE[11], which is its own translation.
Helmet ==
    <<"u30d8", "u30eb", "u30e1", "u30c3", "u30c8", "u3092", "u7740", "u7528",
      "u3057", "u3066", "u304f", "u3060", "u3055", "u3044">>

HelmetTranslated ==
    <<"u30d8", "u30eb", "u30e1", "u30c3", "u30c8", "u3092", "u7740", "u7528",
      "u3057", "u3066", "u4e0b", "u3055", "u3044">>

Piping == <<"u914d", "u7ba1", "u5de5", "u4e8b">>

PipingTranslated == <<"u6392", "u7ba1", "u5de5", "u4e8b">>

Hydration ==
    <<"u6c34", "u5206", "u88dc", "u7d66", "u3092", "u5fd8", "u308c", "u305a",
      "u306b">>

DemoTexts == {Helmet, HelmetTranslated, Piping, PipingTranslated, Hydration}

\* two texts with runs of mixed whitespace, within and around the words
WhitespaceTexts ==
    {<<"a", " ", FullWidthSpace, " ", "b">>, <<FullWidthSpace, "a", "\t">>}

\* the texts handed to compare: all the short ones, the demonstration data
\* and the texts with mixed whitespace
CompareTexts == Texts \cup DemoTexts \cup WhitespaceTexts

SourceInfos == {None, "info1"}

Min2(a, b) == IF a <= b THEN a ELSE b

Max2(a, b) == IF a >= b THEN a ELSE b

RECURSIVE Gcd(_, _)
Gcd(a, b) == IF b = 0 THEN a ELSE Gcd(b, a % b)

\* the float a / b (b > 0), as a reduced fraction
Div(a, b) ==
    LET g == Gcd(a, b)
    IN  [num |-> a \div g, den |-> b \div g]

Zero == Div(0, 1)

One == Div(1, 1)

(***************************************************************************)
(* str helpers: isspace, strip, split, join, re.sub(r'\s+', ' ', .)        *)
(***************************************************************************)
isspace(c) == c \in Whitespace

RECURSIVE lstrip(_)
lstrip(text) ==
    IF text # <<>> /\ isspace(Head(text)) THEN lstrip(Tail(text)) ELSE text

RECURSIVE rstrip(_)
rstrip(text) ==
    IF text # <<>> /\ isspace(text[Len(text)])
    THEN rstrip(SubSeq(text, 1, Len(text) - 1))
    ELSE text

strip(text) == rstrip(lstrip(text))

\* the longest prefix of text without whitespace
RECURSIVE word_prefix(_)
word_prefix(text) ==
    IF text = <<>> \/ isspace(Head(text)) THEN <<>>
    ELSE <<Head(text)>> \o word_prefix(Tail(text))

\* str.split(): the maximal runs of non-whitespace characters, in order
RECURSIVE split(_)
split(text) ==
    IF text = <<>> THEN <<>>
    ELSE IF isspace(Head(text)) THEN split(Tail(text))
    ELSE LET w == word_prefix(text)
         IN  <<w>> \o split(SubSeq(text, Len(w) + 1, Len(text)))

\* " ".join(words)
RECURSIVE join(_)
join(words) ==
    IF words = <<>> THEN <<>>
    ELSE IF Len(words) = 1 THEN words[1]
    ELSE words[1] \o <<" ">> \o join(Tail(words))

\* text.replace('\u3000', ' ')
replace_fullwidth(text) ==
    [k \in 1..Len(text) |-> IF text[k] = FullWidthSpace THEN " " ELSE text[k]]

\* text.replace('  ', ' '): every pair of spaces, taken from the left, becomes
\* one space
RECURSIVE replace_double_spaces(_)
replace_double_spaces(text) ==
    IF Len(text) < 2 THEN text
    ELSE IF text[1] = " " /\ text[2] = " "
    THEN <<" ">> \o replace_double_spaces(SubSeq(text, 3, Len(text)))
    ELSE <<Head(text)>> \o replace_double_spaces(Tail(text))

\* re.sub(r'\s+', ' ', text): every maximal run of whitespace becomes one space
RECURSIVE re_sub_spaces(_)
re_sub_spaces(text) ==
    IF text = <<>> THEN <<>>
    ELSE IF isspace(Head(text)) THEN <<" ">> \o re_sub_spaces(lstrip(text))
    ELSE <<Head(text)>> \o re_sub_spaces(Tail(text))

(***************************************************************************)
(* TextComparator._normalize_text                                          *)
(***************************************************************************)
_normalize_text_no_collapse(text) ==
    IF ~normalize THEN text
    ELSE strip(replace_fullwidth(text))

_normalize_text(text) ==
    IF ~normalize THEN text
    ELSE strip(re_sub_spaces(replace_fullwidth(text)))

(***************************************************************************)
(* metrics._levenshtein_distance: the rolling-row distance                 *)
(***************************************************************************)
\* the inner loop with a substitution always costing 1
RECURSIVE lev_current_row_always_costs(_, _, _, _)
lev_current_row_always_costs(previous_row, current_row, c1, s2) ==
    LET j == Len(current_row)
    IN  IF j > Len(s2) THEN current_row
        ELSE LET insertions == previous_row[j + 1] + 1
                 deletions == current_row[j] + 1
                 substitutions == previous_row[j] + 1
             IN  lev_current_row_always_costs(
                     previous_row,
                     Append(current_row,
                            Min2(insertions, Min2(deletions, substitutions))),
                     c1, s2)

\* the inner loop without the candidate `insertions`
RECURSIVE lev_current_row_no_insertions(_, _, _, _)
lev_current_row_no_insertions(previous_row, current_row, c1, s2) ==
    LET j == Len(current_row)
    IN  IF j > Len(s2) THEN current_row
        ELSE LET deletions == current_row[j] + 1
                 substitutions == previous_row[j] + (IF c1 # s2[j] THEN 1 ELSE 0)
             IN  lev_current_row_no_insertions(
                     previous_row,
                     Append(current_row, Min2(deletions, substitutions)),
                     c1, s2)

\* the inner loop over s2: current_row grows from [i + 1] to len(s2) + 1 cells
RECURSIVE lev_current_row(_, _, _, _)
lev_current_row(previous_row, current_row, c1, s2) ==
    LET j == Len(current_row)     \* the next cell compares c1 with s2[j]
    IN  IF j > Len(s2) THEN current_row
        ELSE LET insertions == previous_row[j + 1] + 1
                 deletions == current_row[j] + 1
                 substitutions == previous_row[j] + (IF c1 # s2[j] THEN 1 ELSE 0)
             IN  lev_current_row(
                     previous_row,
                     Append(current_row,
                            Min2(insertions, Min2(deletions, substitutions))),
                     c1, s2)

\* the outer loop over s1, from its i-th character (1-based) on
RECURSIVE lev_rows(_, _, _, _)
lev_rows(previous_row, i, s1, s2) ==
    IF i > Len(s1) THEN previous_row
    ELSE lev_rows(lev_current_row(previous_row, <<i>>, s1[i], s2), i + 1, s1, s2)

RECURSIVE _levenshtein_distance(_, _)
_levenshtein_distance(s1, s2) ==
    IF Len(s1) < Len(s2) THEN _levenshtein_distance(s2, s1)
    ELSE IF Len(s2) = 0 THEN Len(s1)
    ELSE LET last_row == lev_rows([k \in 1..(Len(s2) + 1) |-> k - 1], 1, s1, s2)
         IN  last_row[Len(last_row)]

(***************************************************************************)
(* metrics._simple_wer, _simple_cer and the calculate_* entry points       *)
(***************************************************************************)
\* _simple_wer returning 0.0 whenever the reference has no word
_simple_wer_empty_is_zero(reference, hypothesis) ==
    LET ref_words == split(reference)
        hyp_words == split(hypothesis)
    IN  IF ref_words = <<>>
        THEN Zero
        ELSE Div(_levenshtein_distance(join(ref_words), join(hyp_words)),
                 Len(ref_words))

_simple_wer(reference, hypothesis) ==
    LET ref_words == split(reference)
        hyp_words == split(hypothesis)
    IN  IF ref_words = <<>>
        THEN (IF hyp_words = <<>> THEN Zero ELSE One)
        ELSE Div(_levenshtein_distance(join(ref_words), join(hyp_words)),
                 Len(ref_words))

\* the CER taken over the longer of the two texts
cer_of_longer(ref_len, hyp_len, distance) ==
    IF ref_len = 0
    THEN (IF hyp_len = 0 THEN Zero ELSE One)
    ELSE Div(distance, Max2(ref_len, hyp_len))

\* _simple_cer on the lengths of the two texts and their distance
cer_of(ref_len, hyp_len, distance) ==
    IF ref_len = 0
    THEN (IF hyp_len = 0 THEN Zero ELSE One)
    ELSE Div(distance, ref_len)

_simple_cer(reference, hypothesis) ==
    cer_of(Len(reference), Len(hypothesis),
           _levenshtein_distance(reference, hypothesis))

calculate_wer(reference, hypothesis) == _simple_wer(reference, hypothesis)

calculate_cer(reference, hypothesis) == _simple_cer(reference, hypothesis)

(***************************************************************************)
(* metrics.calculate_accuracy                                              *)
(***************************************************************************)
\* round(a / b, 0) for a >= 0, b > 0: the nearest integer, a tie to the even one
round_half_even(a, b) ==
    LET q == a \div b
        r == a % b
    IN  IF 2 * r < b THEN q
        ELSE IF 2 * r > b THEN q + 1
        ELSE IF q % 2 = 0 THEN q ELSE q + 1

\* the accuracy cut to two decimals instead of rounded
truncated_accuracy(cer_value) ==
    Max2(0, (cer_value.den - cer_value.num) * 10000) \div cer_value.den

\* round(max(0.0, (1.0 - cer_value) * 100), 2), in hundredths of a percent
rounded_accuracy(cer_value) ==
    round_half_even(Max2(0, (cer_value.den - cer_value.num) * 10000),
                    cer_value.den)

\* calculate_accuracy without the max(0.0, .) clamp
accuracy_of_unclamped(ref_empty, hyp_empty, cer_value) ==
    IF ref_empty
    THEN (IF hyp_empty THEN 10000 ELSE 0)
    ELSE round_half_even((cer_value.den - cer_value.num) * 10000, cer_value.den)

\* calculate_accuracy on the emptiness of the two texts and their CER
accuracy_of(ref_empty, hyp_empty, cer_value) ==
    IF ref_empty
    THEN (IF hyp_empty THEN 10000 ELSE 0)
    ELSE rounded_accuracy(cer_value)

calculate_accuracy(reference, hypothesis) ==
    accuracy_of(reference = <<>>, hypothesis = <<>>,
                calculate_cer(reference, hypothesis))

(***************************************************************************)
(* metrics._simple_bleu                                                    *)
(***************************************************************************)
\* the n-grams of get_ngrams(text, n), in order of occurrence
ngram_list(text, n) ==
    LET words == split(text)
    IN  [k \in 1..(Len(words) - n + 1) |-> SubSeq(words, k, k + n - 1)]

\* get_ngrams(text, n): the dict gram -> number of occurrences
get_ngrams(text, n) ==
    LET grams == ngram_list(text, n)
    IN  [g \in {grams[k] : k \in DOMAIN grams} |->
            Cardinality({k \in DOMAIN grams : grams[k] = g})]

RECURSIVE sum_over(_, _)
sum_over(f, keys) ==
    IF keys = {} THEN 0
    ELSE LET g == CHOOSE g \in keys : TRUE
         IN  f[g] + sum_over(f, keys \ {g})

\* scores[n] with every hypothesis n-gram that occurs in the reference counted
\* as often as it occurs in the hypothesis
bleu_score_unclipped(reference, hypothesis, n) ==
    LET ref_ngrams == get_ngrams(reference, n)
        hyp_ngrams == get_ngrams(hypothesis, n)
        matched == [g \in DOMAIN hyp_ngrams |->
                       IF g \in DOMAIN ref_ngrams THEN hyp_ngrams[g] ELSE 0]
        match_count == sum_over(matched, DOMAIN hyp_ngrams)
        total_count == sum_over(hyp_ngrams, DOMAIN hyp_ngrams)
    IN  IF DOMAIN hyp_ngrams = {} THEN <<0, 1>>
        ELSE IF total_count > 0 THEN <<match_count, total_count>>
        ELSE <<0, 1>>

\* scores[n]: <<match_count, total_count>> of order n, <<0, 1>> for the score 0.0
bleu_score(reference, hypothesis, n) ==
    LET ref_ngrams == get_ngrams(reference, n)
        hyp_ngrams == get_ngrams(hypothesis, n)
        clipped == [g \in DOMAIN hyp_ngrams |->
                       IF g \in DOMAIN ref_ngrams
                       THEN Min2(hyp_ngrams[g], ref_ngrams[g])
                       ELSE 0]
        match_count == sum_over(clipped, DOMAIN hyp_ngrams)
        total_count == sum_over(hyp_ngrams, DOMAIN hyp_ngrams)
    IN  IF DOMAIN hyp_ngrams = {} THEN <<0, 1>>
        ELSE IF total_count > 0 THEN <<match_count, total_count>>
        ELSE <<0, 1>>

_simple_bleu(reference, hypothesis) ==
    IF split(hypothesis) = <<>> THEN Zero
    ELSE LET scores == [n \in 1..4 |-> bleu_score(reference, hypothesis, n)]
         IN  IF \A n \in 1..4 : scores[n][1] > 0
             THEN Div(scores[1][1] * scores[2][1] * scores[3][1] * scores[4][1],
                      scores[1][2] * scores[2][2] * scores[3][2] * scores[4][2])
             ELSE Zero

calculate_bleu(reference, hypothesis) == _simple_bleu(reference, hypothesis)

(***************************************************************************)
(* metrics._classify_error and metrics.get_error_details                   *)
(***************************************************************************)
\* _classify_error without its branch for insertions
_classify_error_no_insert(op_type, ref_char, hyp_char) ==
    IF op_type = "delete" THEN "Deletion"
    ELSE IF op_type = "substitute" THEN "Substitution (possible homophone)"
    ELSE "Unknown"

\* _classify_error without its branch for substitutions
_classify_error_no_substitute(op_type, ref_char, hyp_char) ==
    IF op_type = "delete" THEN "Deletion"
    ELSE IF op_type = "insert" THEN "Insertion"
    ELSE "Unknown"

_classify_error(op_type, ref_char, hyp_char) ==
    IF op_type = "delete" THEN "Deletion"
    ELSE IF op_type = "insert" THEN "Insertion"
    ELSE IF op_type = "substitute" THEN "Substitution (possible homophone)"
    ELSE "Unknown"

\* a cell of ops that was never assigned (None)
NoneOp == <<None, "", "">>

\* dp and ops with the border cells of ops left unassigned
border_tables_no_ops(ref_chars, hyp_chars) ==
    LET m == Len(ref_chars)
        n == Len(hyp_chars)
    IN  [dp  |-> [c \in (0..m) \X (0..n) |->
                    IF c[2] = 0 THEN c[1]
                    ELSE IF c[1] = 0 THEN c[2]
                    ELSE 0],
         ops |-> [c \in (0..m) \X (0..n) |-> NoneOp]]

\* dp and ops after the two border loops (lines 194-204)
border_tables(ref_chars, hyp_chars) ==
    LET m == Len(ref_chars)
        n == Len(hyp_chars)
    IN  [dp  |-> [c \in (0..m) \X (0..n) |->
                    IF c[2] = 0 THEN c[1]
                    ELSE IF c[1] = 0 THEN c[2]
                    ELSE 0],
         ops |-> [c \in (0..m) \X (0..n) |->
                    IF c[2] = 0 /\ c[1] > 0 THEN <<"delete", ref_chars[c[1]], "">>
                    ELSE IF c[1] = 0 /\ c[2] > 0 THEN <<"insert", "", hyp_chars[c[2]]>>
                    ELSE NoneOp]]

\* the last entry of least cost
min_by_cost_last(costs) ==
    LET k == CHOOSE k \in 1..Len(costs) :
                 /\ \A l \in 1..Len(costs) : costs[k][1] <= costs[l][1]
                 /\ \A l \in (k + 1)..Len(costs) : costs[l][1] > costs[k][1]
    IN  costs[k]

\* the substitution when it is of least cost, else the first entry of least cost
min_by_cost_substitute_first(costs) ==
    LET k == CHOOSE k \in 1..Len(costs) :
                 /\ \A l \in 1..Len(costs) : costs[k][1] <= costs[l][1]
                 /\ \A l \in 1..(k - 1) : costs[l][1] > costs[k][1]
    IN  IF costs[Len(costs)][1] = costs[k][1] THEN costs[Len(costs)] ELSE costs[k]

\* min(costs, key=lambda x: x[0]): the first entry of least cost
min_by_cost(costs) ==
    LET k == CHOOSE k \in 1..Len(costs) :
                 /\ \A l \in 1..Len(costs) : costs[k][1] <= costs[l][1]
                 /\ \A l \in 1..(k - 1) : costs[l][1] > costs[k][1]
    IN  costs[k]

\* the body of the inner loop without its branch for equal characters
fill_cell_no_match(t, i, j, ref_chars, hyp_chars) ==
    LET costs == <<
            <<t.dp[<<i - 1, j>>] + 1, <<"delete", ref_chars[i], "">> >>,
            <<t.dp[<<i, j - 1>>] + 1, <<"insert", "", hyp_chars[j]>> >>,
            <<t.dp[<<i - 1, j - 1>>] + 1,
              <<"substitute", ref_chars[i], hyp_chars[j]>> >> >>
        best == min_by_cost(costs)
    IN  [dp  |-> [t.dp EXCEPT ![<<i, j>>] = best[1]],
         ops |-> [t.ops EXCEPT ![<<i, j>>] = best[2]]]

\* the body of the inner loop (lines 208-217) for cell (i, j)
fill_cell(t, i, j, ref_chars, hyp_chars) ==
    IF ref_chars[i] = hyp_chars[j]
    THEN [dp  |-> [t.dp EXCEPT ![<<i, j>>] = t.dp[<<i - 1, j - 1>>]],
          ops |-> [t.ops EXCEPT ![<<i, j>>] =
                      <<"match", ref_chars[i], hyp_chars[j]>>]]
    ELSE LET costs == <<
                 <<t.dp[<<i - 1, j>>] + 1, <<"delete", ref_chars[i], "">> >>,
                 <<t.dp[<<i, j - 1>>] + 1, <<"insert", "", hyp_chars[j]>> >>,
                 <<t.dp[<<i - 1, j - 1>>] + 1,
                   <<"substitute", ref_chars[i], hyp_chars[j]>> >> >>
             best == min_by_cost(costs)
         IN  [dp  |-> [t.dp EXCEPT ![<<i, j>>] = best[1]],
              ops |-> [t.ops EXCEPT ![<<i, j>>] = best[2]]]

\* the inner loop (lines 207-217) over the cells of row i, from cell (i, j) on
\* (the test on the domain, which never fails, makes TLC evaluate the tables
\* of a step before it takes the next one)
RECURSIVE fill_row(_, _, _, _, _)
fill_row(t, i, j, ref_chars, hyp_chars) ==
    IF j > Len(hyp_chars) \/ <<i, j>> \notin DOMAIN t.dp THEN t
    ELSE fill_row(fill_cell(t, i, j, ref_chars, hyp_chars), i, j + 1,
                  ref_chars, hyp_chars)

\* the outer loop (lines 206-217) over the rows, from row i on
RECURSIVE fill_tables(_, _, _, _)
fill_tables(t, i, ref_chars, hyp_chars) ==
    IF i > Len(ref_chars) THEN t
    ELSE fill_tables(fill_row(t, i, 1, ref_chars, hyp_chars), i + 1,
                     ref_chars, hyp_chars)

\* dp and ops as the backtrace reads them
error_tables(reference, hypothesis) ==
    fill_tables(border_tables(reference, hypothesis), 1, reference, hypothesis)

\* the while loop under the condition i > 0 and j > 0
RECURSIVE backtrace_stops_at_border(_, _, _, _, _)
backtrace_stops_at_border(ops, i, j, position, errors) ==
    IF ~(i > 0 /\ j > 0) THEN errors
    ELSE LET op == ops[<<i, j>>]
             found == IF op[1] # None /\ op[1] # "match"
                      THEN Append(errors,
                                  [type |-> op[1],
                                   position |-> position,
                                   reference |-> op[2],
                                   hypothesis |-> op[3],
                                   error_type |-> _classify_error(op[1], op[2], op[3])])
                      ELSE errors
         IN  IF op[1] \in {"match", "substitute"}
             THEN backtrace_stops_at_border(ops, i - 1, j - 1, position - 1, found)
             ELSE IF op[1] = "delete"
             THEN backtrace_stops_at_border(ops, i - 1, j, position - 1, found)
             ELSE IF op[1] = "insert"
             THEN backtrace_stops_at_border(ops, i, j - 1, position - 1, found)
             ELSE found

\* the while loop (lines 222-242), from (i, j, position) on
RECURSIVE backtrace(_, _, _, _, _)
backtrace(ops, i, j, position, errors) ==
    IF ~(i > 0 \/ j > 0) THEN errors
    ELSE LET op == ops[<<i, j>>]
             found == IF op[1] # None /\ op[1] # "match"
                      THEN Append(errors,
                                  [type |-> op[1],
                                   position |-> position,
                                   reference |-> op[2],
                                   hypothesis |-> op[3],
                                   error_type |-> _classify_error(op[1], op[2], op[3])])
                      ELSE errors
         IN  IF op[1] \in {"match", "substitute"}
             THEN backtrace(ops, i - 1, j - 1, position - 1, found)
             ELSE IF op[1] = "delete"
             THEN backtrace(ops, i - 1, j, position - 1, found)
             ELSE IF op[1] = "insert"
             THEN backtrace(ops, i, j - 1, position - 1, found)
             ELSE found

\* the state of the while loop on entry (lines 220-221)
backtrace_start(m, n) ==
    [i |-> m, j |-> n, position |-> Max2(m, n), errors |-> <<>>,
     broke |-> FALSE, rounds |-> 0]

\* one round of the loop that also appends the matching steps to errors
backtrace_round_records_match(ops, s) ==
    LET op == ops[<<s.i, s.j>>]
        found == IF op[1] # None
                 THEN Append(s.errors,
                             [type |-> op[1],
                              position |-> s.position,
                              reference |-> op[2],
                              hypothesis |-> op[3],
                              error_type |-> _classify_error(op[1], op[2], op[3])])
                 ELSE s.errors
        di == IF op[1] \in {"match", "substitute", "delete"} THEN 1 ELSE 0
        dj == IF op[1] \in {"match", "substitute", "insert"} THEN 1 ELSE 0
    IN  IF op[1] \in {"match", "substitute", "delete", "insert"}
        THEN [i |-> s.i - di, j |-> s.j - dj, position |-> s.position - 1,
              errors |-> found, broke |-> FALSE, rounds |-> s.rounds + 1]
        ELSE [s EXCEPT !.errors = found, !.broke = TRUE, !.rounds = @ + 1]

\* One round of the while loop (lines 223-242) on the state s of the loop:
\* i, j, position and errors are the code's variables, broke says that the
\* round left the loop by its break, rounds counts the rounds entered.
backtrace_round(ops, s) ==
    LET op == ops[<<s.i, s.j>>]
        found == IF op[1] # None /\ op[1] # "match"
                 THEN Append(s.errors,
                             [type |-> op[1],
                              position |-> s.position,
                              reference |-> op[2],
                              hypothesis |-> op[3],
                              error_type |-> _classify_error(op[1], op[2], op[3])])
                 ELSE s.errors
    IN  IF op[1] \in {"match", "substitute"}
        THEN [i |-> s.i - 1, j |-> s.j - 1, position |-> s.position - 1,
              errors |-> found, broke |-> FALSE, rounds |-> s.rounds + 1]
        ELSE IF op[1] = "delete"
        THEN [i |-> s.i - 1, j |-> s.j, position |-> s.position - 1,
              errors |-> found, broke |-> FALSE, rounds |-> s.rounds + 1]
        ELSE IF op[1] = "insert"
        THEN [i |-> s.i, j |-> s.j - 1, position |-> s.position - 1,
              errors |-> found, broke |-> FALSE, rounds |-> s.rounds + 1]
        ELSE [s EXCEPT !.errors = found, !.broke = TRUE, !.rounds = @ + 1]

\* the condition of the while loop (line 222), false too once a round broke out
backtrace_continues(s) == (s.i > 0 \/ s.j > 0) /\ ~s.broke

\* list.reverse() that leaves the list as it is
reverse_skipped(list) == list

\* list.reverse()
reverse(list) == [k \in 1..Len(list) |-> list[Len(list) + 1 - k]]

\* the errors in discovery order: the backtrace without the final reverse
get_error_details_unreversed(reference, hypothesis) ==
    backtrace(error_tables(reference, hypothesis).ops,
              Len(reference), Len(hypothesis),
              Max2(Len(reference), Len(hypothesis)), <<>>)

get_error_details(reference, hypothesis) ==
    reverse(backtrace(error_tables(reference, hypothesis).ops,
                      Len(reference), Len(hypothesis),
                      Max2(Len(reference), Len(hypothesis)), <<>>))

(***************************************************************************)
(* TextComparator.compare and compare_batch                                *)
(***************************************************************************)
ErrorDetail(e) ==
    [position |-> e.position,
     reference_text |-> e.reference,
     hypothesis_text |-> e.hypothesis,
     error_type |-> e.error_type]

ComparisonResult(reference, hypothesis, accuracy, wer, cer, bleu, errors, source_info) ==
    [reference |-> reference, hypothesis |-> hypothesis, accuracy |-> accuracy,
     wer |-> wer, cer |-> cer, bleu |-> bleu, errors |-> errors,
     source_info |-> source_info]

\* compare with the metrics taken on the texts as given
compare_unnormalized(reference, hypothesis, source_info) ==
    LET error_details_raw == get_error_details(reference, hypothesis)
    IN  ComparisonResult(
            reference, hypothesis,
            calculate_accuracy(reference, hypothesis),
            calculate_wer(reference, hypothesis),
            calculate_cer(reference, hypothesis),
            calculate_bleu(reference, hypothesis),
            [k \in 1..Len(error_details_raw) |-> ErrorDetail(error_details_raw[k])],
            source_info)

\* compare returning the normalized texts in place of the arguments
compare_returns_normalized(reference, hypothesis, source_info) ==
    compare_unnormalized(_normalize_text(reference), _normalize_text(hypothesis),
                         source_info)

compare(reference, hypothesis, source_info) ==
    LET ref_normalized == _normalize_text(reference)
        hyp_normalized == _normalize_text(hypothesis)
        accuracy == calculate_accuracy(ref_normalized, hyp_normalized)
        wer == calculate_wer(ref_normalized, hyp_normalized)
        cer == calculate_cer(ref_normalized, hyp_normalized)
        bleu == calculate_bleu(ref_normalized, hyp_normalized)
        error_details_raw == get_error_details(ref_normalized, hyp_normalized)
        errors == [k \in 1..Len(error_details_raw) |->
                      ErrorDetail(error_details_raw[k])]
    IN  ComparisonResult(reference, hypothesis, accuracy, wer, cer, bleu,
                         errors, source_info)

\* an Optional[List]: None, or a list
NoList == [given |-> FALSE, value |-> <<>>]

SomeList(list) == [given |-> TRUE, value |-> list]

\* zip that runs to the end of its first argument, padding the second with None
zip_padded(a, b) ==
    [k \in 1..Len(a) |-> <<a[k], IF k <= Len(b) THEN b[k] ELSE None>>]

\* zip(a, b): stops at the end of the shorter list
zip(a, b) == [k \in 1..Min2(Len(a), Len(b)) |-> <<a[k], b[k]>>]

\* the for loop of compare_batch over the zipped items, from the k-th on
RECURSIVE compare_batch_loop(_, _, _)
compare_batch_loop(items, k, results) ==
    IF k > Len(items) THEN results
    ELSE compare_batch_loop(
             items, k + 1,
             Append(results,
                    compare(items[k][1][1], items[k][1][2], items[k][2])))

compare_batch(pairs, source_infos) ==
    LET infos == IF ~source_infos.given
                 THEN [k \in 1..Len(pairs) |-> None]
                 ELSE source_infos.value
    IN  compare_batch_loop(zip(pairs, infos), 1, <<>>)

(***************************************************************************)
(* compare in two steps, as a worker that shares the TextComparator with   *)
(* other workers runs it: the normalization of the two texts into local    *)
(* variables (lines 90-91), then the metrics and the result (lines         *)
(* 93-120).  Each step reads self.normalize as it is when the step runs.   *)
(***************************************************************************)
\* self.normalize after a step of compare that clears it
self_after_compare_cleared(self_normalize) == FALSE

\* self.normalize after a step of compare: compare assigns no attribute
self_after_compare(self_normalize) == self_normalize

\* the local variables after lines 90-91
compare_locals(reference, hypothesis) ==
    [ref_normalized |-> _normalize_text(reference),
     hyp_normalized |-> _normalize_text(hypothesis)]

\* lines 93-120, from the local variables
compare_result(reference, hypothesis, source_info, locals) ==
    LET accuracy == calculate_accuracy(locals.ref_normalized, locals.hyp_normalized)
        wer == calculate_wer(locals.ref_normalized, locals.hyp_normalized)
        cer == calculate_cer(locals.ref_normalized, locals.hyp_normalized)
        bleu == calculate_bleu(locals.ref_normalized, locals.hyp_normalized)
        error_details_raw ==
            get_error_details(locals.ref_normalized, locals.hyp_normalized)
        errors == [k \in 1..Len(error_details_raw) |->
                      ErrorDetail(error_details_raw[k])]
    IN  ComparisonResult(reference, hypothesis, accuracy, wer, cer, bleu,
                         errors, source_info)

(***************************************************************************)
(* TextComparator.summarize.  The summary is the dict it returns:          *)
(* avg_accuracy and avg_bleu are integers of hundredths (round(., 2)),     *)
(* avg_wer and avg_cer integers of ten-thousandths (round(., 4)), and      *)
(* error_breakdown is a function from the error types to their counts.     *)
(* A mean that lies exactly halfway between two decimals is rounded by the *)
(* code to the side its binary float happens to fall on: `ties` says, for  *)
(* each average, whether a halfway case goes up.                           *)
(***************************************************************************)
\* a + b, for two fractions
AddFrac(a, b) == Div(a.num * b.den + b.num * a.den, a.den * b.den)

\* sum(f[k] for k in 1..n), for a list of fractions
RECURSIVE sum_fracs(_, _)
sum_fracs(f, n) == IF n = 0 THEN Zero ELSE AddFrac(sum_fracs(f, n - 1), f[n])

\* the sum without its first term
RECURSIVE sum_ints_skip_first(_, _)
sum_ints_skip_first(f, n) ==
    IF n <= 1 THEN 0 ELSE sum_ints_skip_first(f, n - 1) + f[n]

\* sum(f[k] for k in 1..n), for a list of integers
RECURSIVE sum_ints(_, _)
sum_ints(f, n) == IF n = 0 THEN 0 ELSE sum_ints(f, n - 1) + f[n]

\* round(a / b) to the nearest integer (a >= 0, b > 0), a halfway case up or down
round_ties(a, b, up) ==
    LET q == a \div b
        r == a % b
    IN  IF 2 * r < b THEN q
        ELSE IF 2 * r > b THEN q + 1
        ELSE IF up THEN q + 1 ELSE q

\* the bleu score of a result in percent, for the two scores that are
\* rational: 0.0 (P = 0) and 100.0 (P = 1)
bleu_percent(bleu) == CASE bleu = Zero -> 0 [] bleu = One -> 100

\* the dict {}
EmptyDict == <<>>

\* error_breakdown[error_type] = 1, whatever was counted before
count_error_overwrite(error_breakdown, error_type) ==
    IF error_type \in DOMAIN error_breakdown
    THEN [error_breakdown EXCEPT ![error_type] = 1]
    ELSE error_breakdown @@ (error_type :> 1)

\* error_breakdown[error_type] = error_breakdown.get(error_type, 0) + 1
count_error(error_breakdown, error_type) ==
    IF error_type \in DOMAIN error_breakdown
    THEN [error_breakdown EXCEPT ![error_type] = @ + 1]
    ELSE error_breakdown @@ (error_type :> 1)

\* the inner loop (lines 178-181) over the errors of one result, from the e-th on
RECURSIVE count_errors_of(_, _, _)
count_errors_of(errors, e, acc) ==
    IF e > Len(errors) THEN acc
    ELSE count_errors_of(
             errors, e + 1,
             [error_breakdown |-> count_error(acc.error_breakdown,
                                              errors[e].error_type),
              total_errors |-> acc.total_errors + 1])

\* the outer loop (lines 177-181) over the results, from the k-th on
RECURSIVE count_errors(_, _, _)
count_errors(results, k, acc) ==
    IF k > Len(results) THEN acc
    ELSE count_errors(results, k + 1, count_errors_of(results[k].errors, 1, acc))

\* what summarize returns for no result
empty_summary ==
    [total_items |-> 0, avg_accuracy |-> 0, avg_wer |-> 0, avg_cer |-> 0,
     avg_bleu |-> 0, total_errors |-> 0, error_breakdown |-> EmptyDict]

\* what summarize returns for a non-empty list of results
summary_of(results, ties) ==
    LET n == Len(results)
        sum_accuracy == sum_ints([k \in 1..n |-> results[k].accuracy], n)
        sum_wer == sum_fracs([k \in 1..n |-> results[k].wer], n)
        sum_cer == sum_fracs([k \in 1..n |-> results[k].cer], n)
        sum_bleu == sum_ints([k \in 1..n |-> bleu_percent(results[k].bleu)], n)
        counted == count_errors(results, 1,
                                [error_breakdown |-> EmptyDict, total_errors |-> 0])
    IN  [total_items |-> n,
         avg_accuracy |-> round_ties(sum_accuracy, n, ties.accuracy),
         avg_wer |-> round_ties(10000 * sum_wer.num, sum_wer.den * n, ties.wer),
         avg_cer |-> round_ties(10000 * sum_cer.num, sum_cer.den * n, ties.cer),
         avg_bleu |-> round_ties(100 * sum_bleu, n, ties.bleu),
         total_errors |-> counted.total_errors,
         error_breakdown |-> counted.error_breakdown]

\* summarize without its guard for an empty list: the averages divide by zero
summarize_unguarded(results, ties) ==
    IF results = <<>> THEN [raised |-> "ZeroDivisionError"]
    ELSE summary_of(results, ties)

summarize(results, ties) ==
    IF results = <<>> THEN empty_summary
    ELSE summary_of(results, ties)

(***************************************************************************)
(* translators/felo_api.py: FeloTranslator.  A translator is the record of *)
(* its attributes; translate_audio is modelled by the method it dispatches *)
(* to, or the exception it raises.                                         *)
(***************************************************************************)
\* FeloTranslator(api_endpoint, api_key)
FeloTranslator(api_endpoint, api_key) ==
    [api_endpoint |-> api_endpoint,
     api_key |-> api_key,
     _mock_mode |-> (api_endpoint = "")]

\* the property is_mock_mode
is_mock_mode(self) == self._mock_mode

\* set_credentials that stores the credentials and leaves the mode as it was
set_credentials_keeps_mode(self, api_endpoint, api_key) ==
    [self EXCEPT !.api_endpoint = api_endpoint, !.api_key = api_key]

\* set_credentials(api_endpoint, api_key): the translator after the call
set_credentials(self, api_endpoint, api_key) ==
    [self EXCEPT !.api_endpoint = api_endpoint,
                 !.api_key = api_key,
                 !._mock_mode = (api_endpoint = "")]

\* translate_audio(audio_path), for an audio file that exists or not
translate_audio(self, audio_exists) ==
    IF ~audio_exists THEN "FileNotFoundError"
    ELSE IF self._mock_mode THEN "_mock_translate"
    ELSE "_api_translate"

(***************************************************************************)
(* The state machine.  A behaviour constructs a TextComparator (Init) and  *)
(* makes one call, whose arguments are drawn from the bounded sets below;  *)
(* the call's action computes the whole call and records what it returns.  *)
(***************************************************************************)
\* the lists of at most n elements of s
ListsUpTo(s, n) == UNION {[1..k -> s] : k \in 0..n}

NormTexts == TextsUpTo(NormChars, MaxNormLen)

\* the texts of the pairs of a compare_batch call
BatchTexts == {<<"a">>, <<" ", "b">>}

BatchPairs == ListsUpTo(BatchTexts \X BatchTexts, MaxBatch)

\* the source_infos lists: up to one more entry than there can be pairs
BatchInfos == ListsUpTo({"info1", "info2"}, MaxBatch + 1)

\* reference lengths around the multiples of 20000, and the short ones
LongLens ==
    {l \in {k * 20000 + e : k \in 0..MaxLongK, e \in (0 - 2)..2} : l >= 0}

\* the workers that share one TextComparator
Workers == {"w1", "w2"}

\* a worker that is in no call
NoFrame == [at |-> "idle"]

NoFrames == [w \in Workers |-> NoFrame]

\* TextComparator(normalize)
Init ==
    /\ normalize \in BOOLEAN
    /\ pc = "idle"
    /\ call = [op |-> "none"]
    /\ ret = None
    /\ frames = NoFrames

\* no TextComparator is involved: the functions of metrics.py called directly
InitMetrics ==
    /\ normalize = TRUE
    /\ pc = "idle"
    /\ call = [op |-> "none"]
    /\ ret = None
    /\ frames = NoFrames

Compare ==
    /\ pc = "idle"
    /\ \E reference \in CompareTexts, hypothesis \in CompareTexts,
          source_info \in SourceInfos :
        /\ call' = [op |-> "compare", reference |-> reference,
                    hypothesis |-> hypothesis, source_info |-> source_info]
        /\ ret' = compare(reference, hypothesis, source_info)
    /\ pc' = "done"
    /\ UNCHANGED <<normalize, frames>>

CompareBatch ==
    /\ pc = "idle"
    /\ \E pairs \in BatchPairs,
          source_infos \in {NoList} \cup {SomeList(l) : l \in BatchInfos} :
        /\ call' = [op |-> "compare_batch", pairs |-> pairs,
                    source_infos |-> source_infos]
        /\ ret' = compare_batch(pairs, source_infos)
    /\ pc' = "done"
    /\ UNCHANGED <<normalize, frames>>

NormalizeText ==
    /\ pc = "idle"
    /\ \E text \in NormTexts :
        /\ call' = [op |-> "_normalize_text", text |-> text]
        /\ ret' = _normalize_text(text)
    /\ pc' = "done"
    /\ UNCHANGED <<normalize, frames>>

LevenshteinDistance ==
    /\ pc = "idle"
    /\ \E s1 \in Texts, s2 \in Texts :
        /\ call' = [op |-> "_levenshtein_distance", reference |-> s1,
                    hypothesis |-> s2]
        /\ ret' = _levenshtein_distance(s1, s2)
    /\ pc' = "done"
    /\ UNCHANGED <<normalize, frames>>

SimpleCer ==
    /\ pc = "idle"
    /\ \E reference \in Texts, hypothesis \in Texts :
        /\ call' = [op |-> "_simple_cer", reference |-> reference,
                    hypothesis |-> hypothesis]
        /\ ret' = _simple_cer(reference, hypothesis)
    /\ pc' = "done"
    /\ UNCHANGED <<normalize, frames>>

SimpleWer ==
    /\ pc = "idle"
    /\ \E reference \in Texts, hypothesis \in Texts :
        /\ call' = [op |-> "_simple_wer", reference |-> reference,
                    hypothesis |-> hypothesis]
        /\ ret' = _simple_wer(reference, hypothesis)
    /\ pc' = "done"
    /\ UNCHANGED <<normalize, frames>>

GetErrorDetails ==
    /\ pc = "idle"
    /\ \E reference \in Texts, hypothesis \in Texts :
        /\ call' = [op |-> "get_error_details", reference |-> reference,
                    hypothesis |-> hypothesis]
        /\ ret' = get_error_details(reference, hypothesis)
    /\ pc' = "done"
    /\ UNCHANGED <<normalize, frames>>

\* calculate_accuracy on a reference of ref_len and a hypothesis of hyp_len
\* characters at edit distance `distance`: every triple with
\* |ref_len - hyp_len| <= distance <= max(ref_len, hyp_len) is the lengths and
\* the distance of some pair of texts
CalculateAccuracy ==
    /\ pc = "idle"
    /\ \E ref_len \in LongLens, distance \in 0..MaxLongDist :
       \E hyp_len \in (ref_len - distance)..(ref_len + distance) :
        /\ hyp_len >= 0
        /\ distance <= Max2(ref_len, hyp_len)
        /\ call' = [op |-> "calculate_accuracy", ref_len |-> ref_len,
                    hyp_len |-> hyp_len, distance |-> distance]
        /\ ret' = accuracy_of(ref_len = 0, hyp_len = 0,
                              cer_of(ref_len, hyp_len, distance))
    /\ pc' = "done"
    /\ UNCHANGED <<normalize, frames>>

\* a text of four words
FourWords == <<"a", " ", "b", " ", "a", " ", "b">>

\* the pairs whose results are handed to summarize: between them they give
\* every error type, no error at all, and both rational bleu scores
SummaryPairs ==
    {<<Piping, PipingTranslated>>, <<Hydration, Hydration>>,
     <<<<"a", "b">>, <<"b", "a">>>>, <<FourWords, FourWords>>}

\* which way each average goes when it lies halfway between two decimals
Ties == [accuracy : BOOLEAN, wer : BOOLEAN, cer : BOOLEAN, bleu : BOOLEAN]

\* summarize on the results compare_batch returned for some pairs
Summarize ==
    /\ pc = "idle"
    /\ \E pairs \in ListsUpTo(SummaryPairs, MaxResults) :
        LET results == compare_batch(pairs, NoList)
        IN  /\ call' = [op |-> "summarize", results |-> results]
            /\ \E ties \in Ties : ret' = summarize(results, ties)
    /\ pc' = "done"
    /\ UNCHANGED <<normalize, frames>>

\* the texts handed to _simple_bleu: up to MaxWords one-letter words
BleuTexts == {join(words) : words \in ListsUpTo({<<"a">>, <<"b">>}, MaxWords)}

SimpleBleu ==
    /\ pc = "idle"
    /\ \E reference \in BleuTexts, hypothesis \in BleuTexts :
        /\ call' = [op |-> "_simple_bleu", reference |-> reference,
                    hypothesis |-> hypothesis]
        /\ ret' = _simple_bleu(reference, hypothesis)
    /\ pc' = "done"
    /\ UNCHANGED <<normalize, frames>>

\* The pairs of a batch compared by the workers: a result slot per pair, in
\* input order, is filled by the worker that compared the pair.
NoResult == [pending |-> TRUE]

\* the pairs no worker has taken yet
Unclaimed ==
    {k \in 1..Len(call.pairs) :
        /\ ret[k] = NoResult
        /\ \A w \in Workers : ~(frames[w].at = "normalized" /\ frames[w].index = k)}

\* a batch is handed to the workers
ParallelStart ==
    /\ pc = "idle"
    /\ \E pairs \in BatchPairs :
        /\ call' = [op |-> "parallel", pairs |-> pairs]
        /\ ret' = [k \in 1..Len(pairs) |-> NoResult]
    /\ pc' = "running"
    /\ UNCHANGED <<normalize, frames>>

\* worker w takes a pair and runs compare up to line 91
WorkerBegin(w) ==
    /\ pc = "running"
    /\ frames[w].at = "idle"
    /\ \E k \in Unclaimed :
        frames' = [frames EXCEPT ![w] =
                      [at |-> "normalized", index |-> k,
                       reference |-> call.pairs[k][1],
                       hypothesis |-> call.pairs[k][2],
                       locals |-> compare_locals(call.pairs[k][1], call.pairs[k][2])]]
    /\ normalize' = self_after_compare(normalize)
    /\ UNCHANGED <<pc, call, ret>>

\* worker w runs compare from line 93 to its return and stores the result
\* in the slot of its pair
WorkerEnd(w) ==
    /\ pc = "running"
    /\ frames[w].at = "normalized"
    /\ ret' = [ret EXCEPT ![frames[w].index] =
                  compare_result(frames[w].reference, frames[w].hypothesis,
                                 None, frames[w].locals)]
    /\ frames' = [frames EXCEPT ![w] = NoFrame]
    /\ normalize' = self_after_compare(normalize)
    /\ UNCHANGED <<pc, call>>

\* every slot is filled: the slots, in input order, are the result
ParallelJoin ==
    /\ pc = "running"
    /\ \A k \in 1..Len(call.pairs) : ret[k] # NoResult
    /\ pc' = "done"
    /\ UNCHANGED <<normalize, call, ret, frames>>

NextParallel ==
    \/ ParallelStart
    \/ \E w \in Workers : WorkerBegin(w)
    \/ \E w \in Workers : WorkerEnd(w)
    \/ ParallelJoin

\* config.felo_api_endpoint and config.felo_api_key, from the environment
Endpoints == {"", "https://felo.example/translate"}

ApiKeys == {"", "key"}

\* the audio_paths of a run: for each text pair the file TTS wrote, or None
\* when TTS failed
AudioPathLists == ListsUpTo({None, "audio.mp3"}, MaxAudio)

\* run_test_pipeline(input_path, output_path, label, use_mock) up to the
\* construction of the translator (lines 108-168); a run that finds no text
\* pair returns {} before it (lines 122-124, 138-140)
RunTestPipeline ==
    /\ pc = "idle"
    /\ \E use_mock \in BOOLEAN, felo_api_endpoint \in Endpoints,
          felo_api_key \in ApiKeys, audio_paths \in AudioPathLists :
        /\ call' = [op |-> "run_test_pipeline", use_mock |-> use_mock,
                    felo_api_endpoint |-> felo_api_endpoint,
                    felo_api_key |-> felo_api_key,
                    audio_paths |-> audio_paths]
        /\ IF audio_paths = <<>>
           THEN /\ ret' = [translator |-> [constructed |-> FALSE],
                           calls |-> <<>>, translation_results |-> <<>>]
                /\ pc' = "done"
           ELSE /\ ret' = [translator |-> FeloTranslator(felo_api_endpoint,
                                                         felo_api_key),
                           calls |-> <<>>, translation_results |-> <<>>]
                /\ pc' = "translating"
    /\ UNCHANGED <<normalize, frames>>

\* one round of the translation loop (lines 171-182): ret.calls lists the
\* translation methods reached so far; a call of the API returns a text or
\* raises RuntimeError, which the loop turns into ""
TranslateNext ==
    /\ pc = "translating"
    /\ Len(ret.translation_results) < Len(call.audio_paths)
    /\ LET audio_path == call.audio_paths[Len(ret.translation_results) + 1]
           method == translate_audio(ret.translator, TRUE)
       IN  IF audio_path = None
           THEN ret' = [ret EXCEPT !.translation_results = Append(@, None)]
           ELSE \E translated_text \in
                    IF method = "_mock_translate" THEN {"mock text"}
                    ELSE {"api text", ""} :
                   ret' = [ret EXCEPT !.calls = Append(@, method),
                                      !.translation_results =
                                          Append(@, translated_text)]
    /\ UNCHANGED <<normalize, pc, call, frames>>

\* the rest of the run (lines 184-232): evaluation, reports and the summary,
\* none of which reaches the translator
PipelineFinish ==
    /\ pc = "translating"
    /\ Len(ret.translation_results) = Len(call.audio_paths)
    /\ pc' = "done"
    /\ UNCHANGED <<normalize, call, ret, frames>>

NextPipeline == RunTestPipeline \/ TranslateNext \/ PipelineFinish

\* get_error_details(reference, hypothesis) step by step.  Its first step
\* (lines 188-221) builds dp and ops and sets up the backtrace; ret holds the
\* local variables of the call.
GetErrorDetailsBegin ==
    /\ pc = "idle"
    /\ \E reference \in Texts, hypothesis \in Texts :
        /\ call' = [op |-> "get_error_details", reference |-> reference,
                    hypothesis |-> hypothesis]
        /\ LET t == error_tables(reference, hypothesis)
           IN  ret' = [dp |-> t.dp, ops |-> t.ops,
                       loop |-> backtrace_start(Len(reference), Len(hypothesis))]
    /\ pc' = "backtrace"
    /\ UNCHANGED <<normalize, frames>>

\* one round of the while loop (lines 222-242)
BacktraceRound ==
    /\ pc = "backtrace"
    /\ backtrace_continues(ret.loop)
    /\ ret' = [ret EXCEPT !.loop = backtrace_round(ret.ops, ret.loop)]
    /\ UNCHANGED <<normalize, pc, call, frames>>

\* the loop is left: errors.reverse() and the return (lines 244-245)
GetErrorDetailsReturn ==
    /\ pc = "backtrace"
    /\ ~backtrace_continues(ret.loop)
    /\ ret' = [ret EXCEPT !.loop.errors = reverse(@)]
    /\ pc' = "done"
    /\ UNCHANGED <<normalize, call, frames>>

NextTrace == GetErrorDetailsBegin \/ BacktraceRound \/ GetErrorDetailsReturn

\* FeloTranslator(api_endpoint, api_key): ret holds the translator, the
\* number of set_credentials calls made on it and, for every translate_audio
\* call, whether its audio file existed and what the call came to
ConstructTranslator ==
    /\ pc = "idle"
    /\ \E api_endpoint \in Endpoints, api_key \in ApiKeys :
        /\ call' = [op |-> "FeloTranslator", api_endpoint |-> api_endpoint,
                    api_key |-> api_key]
        /\ ret' = [translator |-> FeloTranslator(api_endpoint, api_key),
                   credentials_set |-> 0, calls |-> <<>>]
    /\ pc' = "constructed"
    /\ UNCHANGED <<normalize, frames>>

SetCredentials ==
    /\ pc = "constructed"
    /\ ret.credentials_set < MaxCredentials
    /\ \E api_endpoint \in Endpoints, api_key \in ApiKeys :
        /\ call' = [op |-> "set_credentials", api_endpoint |-> api_endpoint,
                    api_key |-> api_key]
        /\ ret' = [ret EXCEPT
                      !.translator = set_credentials(@, api_endpoint, api_key),
                      !.credentials_set = @ + 1]
    /\ UNCHANGED <<normalize, pc, frames>>

TranslateAudio ==
    /\ pc = "constructed"
    /\ Len(ret.calls) < MaxTranslations
    /\ \E audio_exists \in BOOLEAN :
        /\ call' = [op |-> "translate_audio", audio_exists |-> audio_exists]
        /\ ret' = [ret EXCEPT !.calls =
                      Append(@, [audio_exists |-> audio_exists,
                                 outcome |-> translate_audio(ret.translator,
                                                             audio_exists)])]
    /\ UNCHANGED <<normalize, pc, frames>>

NextTranslator == ConstructTranslator \/ SetCredentials \/ TranslateAudio

NextMetrics == LevenshteinDistance \/ SimpleCer \/ SimpleWer \/ GetErrorDetails

\* one compare call on a TextComparator
Spec == Init /\ [][Compare]_vars

\* one compare_batch call on a TextComparator
SpecBatch == Init /\ [][CompareBatch]_vars

\* one _normalize_text call on a TextComparator
SpecNorm == Init /\ [][NormalizeText]_vars

\* one call of a function of metrics.py
SpecMetrics == InitMetrics /\ [][NextMetrics]_vars

\* one calculate_accuracy call, long references included
SpecAcc == InitMetrics /\ [][CalculateAccuracy]_vars

\* one _simple_bleu call
SpecBleu == InitMetrics /\ [][SimpleBleu]_vars

\* one batch compared by workers that share a TextComparator
SpecParallel == Init /\ [][NextParallel]_vars

\* one run of the pipeline of main.py, whose TextComparator has the default
\* normalize = True
SpecPipeline == InitMetrics /\ [][NextPipeline]_vars

\* one summarize call on a TextComparator
SpecSummary == Init /\ [][Summarize]_vars

\* one FeloTranslator: its construction, then set_credentials and
\* translate_audio calls in any order
SpecTranslator == InitMetrics /\ [][NextTranslator]_vars

\* one get_error_details call, step by step
SpecTrace == InitMetrics /\ [][NextTrace]_vars

\* the same, for a call that is not suspended for ever: the interpreter goes
\* on with a step that is enabled
SpecTraceFair == InitMetrics /\ [][NextTrace]_vars /\ WF_vars(NextTrace)

(***************************************************************************)
(* Reference definitions the properties are stated with.                   *)
(***************************************************************************)
\* the number of elements of S up to x
Rank(S, x) == Cardinality({y \in S : y <= x})

\* An edit script turning s1 into s2 keeps or substitutes the tokens of s1
\* at the positions A, which become, in the same order, the tokens of s2 at
\* the positions B; it deletes the other tokens of s1 and inserts the other
\* tokens of s2.  Its number of edits:
ScriptCost(s1, s2, A, B) ==
    (Len(s1) - Cardinality(A)) + (Len(s2) - Cardinality(B))
    + Cardinality({p \in A \X B :
                      Rank(A, p[1]) = Rank(B, p[2]) /\ s1[p[1]] # s2[p[2]]})

\* the minimum number of single-token insertions, deletions and substitutions
\* that turn s1 into s2
EditDistance(s1, s2) ==
    LET scripts == {ScriptCost(s1, s2, p[1], p[2]) :
                         p \in {q \in (SUBSET (1..Len(s1))) \X (SUBSET (1..Len(s2))) :
                                   Cardinality(q[1]) = Cardinality(q[2])}}
    IN  CHOOSE c \in scripts : \A d \in scripts : c <= d

\* the characters of text that are not whitespace, in order
NonSpace(text) == SelectSeq(text, LAMBDA c : ~isspace(c))

\* a is x rounded to the nearest integer, a tie to the even one, for x = num / den
IsRounded(a, num, den) ==
    LET diff == IF a * den >= num THEN a * den - num ELSE num - a * den
    IN  2 * diff < den \/ (2 * diff = den /\ a % 2 = 0)

\* what compare computes, apart from the fields it copies from its arguments
Metrics(result) ==
    <<result.accuracy, result.wer, result.cer, result.bleu, result.errors>>

(***************************************************************************)
(* The properties.                                                         *)
(***************************************************************************)

\* C1: for every text t, with normalization on or off, compare(t, t) returns
\* accuracy 100.0, wer 0.0, cer 0.0 and an empty error list.
C1_CompareSelf ==
    (pc = "done" /\ call.reference = call.hypothesis) =>
        /\ ret.accuracy = 10000
        /\ ret.wer = Zero
        /\ ret.cer = Zero
        /\ ret.errors = <<>>

\* C1 witness: a text of two words has been compared with itself.
C1_Witness ==
    /\ pc = "done"
    /\ call.reference = <<"a", " ", "b">>
    /\ call.hypothesis = <<"a", " ", "b">>
    /\ ret.accuracy = 10000
    /\ ret.errors = <<>>

\* C2: the built-in CER of (r, h) is the character edit distance of r and h
\* divided by len(r) when r is not empty, 1.0 when r is empty and h is not,
\* 0.0 when both are empty; the divisor is never zero.
C2_Cer ==
    (pc = "done" /\ call.op = "_simple_cer") =>
        /\ ret.den > 0
        /\ ret = IF call.reference # <<>>
                 THEN Div(EditDistance(call.reference, call.hypothesis),
                          Len(call.reference))
                 ELSE IF call.hypothesis # <<>> THEN One ELSE Zero

\* C2 witness: a CER strictly between 0 and 1, of a hypothesis longer than
\* the reference.
C2_Witness ==
    /\ pc = "done"
    /\ call.op = "_simple_cer"
    /\ Len(call.reference) = 2
    /\ Len(call.hypothesis) = 3
    /\ ret = Div(1, 2)

\* C3: the accuracy and the cer of the result of compare satisfy
\* accuracy = round(max(0, (1 - cer) * 100), 2); when the normalized reference
\* is empty the accuracy is 100.0 for an empty normalized hypothesis and 0.0
\* otherwise.
C3_AccuracyFromCer ==
    pc = "done" =>
        /\ IsRounded(ret.accuracy,
                     Max2(0, (ret.cer.den - ret.cer.num) * 10000),
                     ret.cer.den)
        /\ _normalize_text(call.reference) = <<>> =>
               ret.accuracy = IF _normalize_text(call.hypothesis) = <<>>
                              THEN 10000 ELSE 0

\* C3 witness: a cer of 1/3, whose accuracy 66.666... is rounded up to 66.67.
C3_Witness ==
    /\ pc = "done"
    /\ ret.cer = Div(1, 3)
    /\ ret.accuracy = 6667

\* C4 as claimed: 0 <= accuracy <= 100, and accuracy = 100 exactly when
\* cer = 0, for texts of any length.
C4_Original ==
    pc = "done" =>
        /\ 0 <= ret /\ ret <= 10000
        /\ ret = 10000 <=> cer_of(call.ref_len, call.hyp_len, call.distance) = Zero

\* C4 as amended: 0 <= accuracy <= 100; cer = 0 implies accuracy = 100; and
\* accuracy = 100 implies cer <= 0.00005 (the accuracy is rounded to two
\* decimals), so that accuracy = 100 exactly when cer = 0 for every reference
\* of fewer than 20000 characters.
C4_AccuracyRange ==
    pc = "done" =>
        LET cer == cer_of(call.ref_len, call.hyp_len, call.distance)
        IN  /\ 0 <= ret /\ ret <= 10000
            /\ cer = Zero => ret = 10000
            /\ ret = 10000 => 20000 * cer.num <= cer.den
            /\ call.ref_len < 20000 => (ret = 10000 <=> cer = Zero)

\* C4 witness: a pair at a non-zero edit distance reported with accuracy 100.
C4_Witness ==
    /\ pc = "done"
    /\ call.distance > 0
    /\ ret = 10000

\* C5 as claimed: the built-in WER is the edit distance between the two
\* sequences of whitespace-delimited words, each word one token, divided by
\* the number of reference words; with no reference word it is 0.0 when the
\* hypothesis has no word either and 1.0 otherwise.
C5_WerOverWords ==
    (pc = "done" /\ call.op = "_simple_wer") =>
        LET ref_words == split(call.reference)
            hyp_words == split(call.hypothesis)
        IN  ret = IF ref_words # <<>>
                  THEN Div(EditDistance(ref_words, hyp_words), Len(ref_words))
                  ELSE IF hyp_words # <<>> THEN One ELSE Zero

\* C6: the distance of the rolling-row _levenshtein_distance and the final cell
\* dp[m][n] of the table of get_error_details both equal the minimum number
\* of single-character insertions, deletions and substitutions turning s1
\* into s2; it is an integer >= 0, the length of the other text when either
\* text is empty.
C6_DistanceIsMinimal ==
    (pc = "done" /\ call.op = "_levenshtein_distance") =>
        LET s1 == call.reference
            s2 == call.hypothesis
        IN  /\ ret = EditDistance(s1, s2)
            /\ error_tables(s1, s2).dp[<<Len(s1), Len(s2)>>] = EditDistance(s1, s2)
            /\ ret \in Nat
            /\ s1 = <<>> => ret = Len(s2)
            /\ s2 = <<>> => ret = Len(s1)

\* C6 witness: two texts of different lengths, the first the shorter, whose
\* distance is neither 0 nor the length of the longer.
C6_Witness ==
    /\ pc = "done"
    /\ call.op = "_levenshtein_distance"
    /\ call.reference = <<"a", "b">>
    /\ call.hypothesis = <<"b", "a", "b">>
    /\ ret = 1

\* C7: the positions of the errors returned by get_error_details never
\* decrease along the list.
C7_PositionsOrdered ==
    (pc = "done" /\ call.op = "get_error_details") =>
        \A k \in 1..(Len(ret) - 1) : ret[k].position <= ret[k + 1].position

\* C7 witness: a list of two errors at different positions.
C7_Witness ==
    /\ pc = "done"
    /\ call.op = "get_error_details"
    /\ Len(ret) = 2
    /\ ret[1].position < ret[2].position

\* C8: the result of compare carries the reference, the hypothesis and the
\* source_info exactly as passed; its accuracy, wer, cer, bleu and errors are
\* those of the normalized texts, so that an argument replaced by a text of
\* the same normalized form gives the same metrics and errors.
C8_CompareFrame ==
    pc = "done" =>
        LET ref_normalized == _normalize_text(call.reference)
            hyp_normalized == _normalize_text(call.hypothesis)
        IN  /\ ret.reference = call.reference
            /\ ret.hypothesis = call.hypothesis
            /\ ret.source_info = call.source_info
            /\ ret.accuracy = calculate_accuracy(ref_normalized, hyp_normalized)
            /\ ret.wer = calculate_wer(ref_normalized, hyp_normalized)
            /\ ret.cer = calculate_cer(ref_normalized, hyp_normalized)
            /\ ret.bleu = calculate_bleu(ref_normalized, hyp_normalized)
            /\ ret.errors =
                   LET raw == get_error_details(ref_normalized, hyp_normalized)
                   IN  [k \in 1..Len(raw) |-> ErrorDetail(raw[k])]
            /\ \A t \in {ref_normalized, <<" ">> \o call.reference} :
                   _normalize_text(t) = ref_normalized =>
                       Metrics(compare(t, call.hypothesis, None)) = Metrics(ret)
            /\ \A t \in {hyp_normalized, call.hypothesis \o <<" ">>} :
                   _normalize_text(t) = hyp_normalized =>
                       Metrics(compare(call.reference, t, None)) = Metrics(ret)

\* C8 witness: both arguments differ from their normalized forms, a
\* source_info is passed and the normalized texts differ.
C8_Witness ==
    /\ pc = "done"
    /\ normalize
    /\ call.reference = <<" ", "a", "b">>
    /\ call.hypothesis = <<"a", " ", " ">>
    /\ call.source_info = "info1"
    /\ ret.reference = <<" ", "a", "b">>
    /\ ret.hypothesis = <<"a", " ", " ">>
    /\ ret.source_info = "info1"
    /\ ret.cer = Div(1, 2)

\* C9: with normalization enabled, the text returned by _normalize_text holds
\* no full-width space, no two whitespace characters in a row, no whitespace
\* character but the ordinary space, no whitespace at either end, and the
\* non-whitespace characters of the input, in the same order; with
\* normalization disabled it is the input.
C9_Normalized ==
    (pc = "done" /\ call.op = "_normalize_text") =>
        IF normalize
        THEN /\ \A k \in 1..Len(ret) : ret[k] # FullWidthSpace
             /\ \A k \in 1..(Len(ret) - 1) : ~(isspace(ret[k]) /\ isspace(ret[k + 1]))
             /\ \A k \in 1..Len(ret) : isspace(ret[k]) => ret[k] = " "
             /\ ret # <<>> => ~isspace(ret[1]) /\ ~isspace(ret[Len(ret)])
             /\ NonSpace(ret) = NonSpace(call.text)
        ELSE ret = call.text

\* C9 witness: a run of a tab and a full-width space between two characters
\* has become one space.
C9_Witness ==
    /\ pc = "done"
    /\ normalize
    /\ call.text = <<"a", "\t", FullWidthSpace, "b">>
    /\ ret = <<"a", " ", "b">>

\* C10: compare_batch returns, in input order, the results of compare on the
\* pairs: without source_infos one result per pair, each with no source info;
\* with source_infos min(len(pairs), len(source_infos)) results, the k-th of
\* pairs[k] with source_infos[k]; a length mismatch raises no error.
C10_BatchPairsUp ==
    (pc = "done" /\ call.op = "compare_batch") =>
        LET pairs == call.pairs
            infos == call.source_infos
        IN  IF ~infos.given
            THEN /\ Len(ret) = Len(pairs)
                 /\ \A k \in 1..Len(pairs) :
                        ret[k] = compare(pairs[k][1], pairs[k][2], None)
            ELSE /\ Len(ret) = Min2(Len(pairs), Len(infos.value))
                 /\ \A k \in 1..Len(ret) :
                        ret[k] = compare(pairs[k][1], pairs[k][2], infos.value[k])

\* C10 witness: two pairs and a single source info have given one result.
C10_Witness ==
    /\ pc = "done"
    /\ call.op = "compare_batch"
    /\ call.source_infos.given
    /\ Len(call.pairs) = 2
    /\ Len(call.source_infos.value) = 1
    /\ Len(ret) = 1
    /\ ret[1].source_info = call.source_infos.value[1]

\* the errors of a list of results, each named by the index of its result
\* and its index in that result's list
ErrorsOf(results) ==
    {p \in (1..Len(results)) \X (1..16) : p[2] <= Len(results[p[1]].errors)}

\* the error types of a list of results
ErrorTypesOf(results) ==
    {results[p[1]].errors[p[2]].error_type : p \in ErrorsOf(results)}

\* the sum of the values of a dict of integers: the number of pairs
\* (key, unit) with unit at most the value of the key
SumOfValues(d) ==
    Cardinality({p \in (DOMAIN d) \X (1..64) : p[2] <= d[p[1]]})

\* C11: for a non-empty list of results, summarize returns total_items =
\* len(results), total_errors = the number of ErrorDetail entries over all the
\* results, and an error_breakdown that maps each error_type to the number
\* of entries of that type: its values sum to total_errors and none is 0.
C11_SummaryCounts ==
    (pc = "done" /\ call.op = "summarize" /\ call.results # <<>>) =>
        LET results == call.results
        IN  /\ ret.total_items = Len(results)
            /\ ret.total_errors = Cardinality(ErrorsOf(results))
            /\ DOMAIN ret.error_breakdown = ErrorTypesOf(results)
            /\ \A t \in DOMAIN ret.error_breakdown :
                   /\ ret.error_breakdown[t] =
                          Cardinality({p \in ErrorsOf(results) :
                              results[p[1]].errors[p[2]].error_type = t})
                   /\ ret.error_breakdown[t] > 0
            /\ SumOfValues(ret.error_breakdown) = ret.total_errors

\* C11 witness: three results with four errors between them, of three types,
\* one type counted twice.
C11_Witness ==
    /\ pc = "done"
    /\ call.op = "summarize"
    /\ Len(call.results) = 3
    /\ ret.total_items = 3
    /\ ret.total_errors = 4
    /\ Cardinality(DOMAIN ret.error_breakdown) = 3
    /\ \E t \in DOMAIN ret.error_breakdown : ret.error_breakdown[t] = 2

\* C12: summarize of the empty list returns total_items 0, the four averages
\* 0.0, total_errors 0 and an empty error_breakdown.
C12_EmptySummary ==
    (pc = "done" /\ call.op = "summarize" /\ call.results = <<>>) =>
        ret = [total_items |-> 0, avg_accuracy |-> 0, avg_wer |-> 0,
               avg_cer |-> 0, avg_bleu |-> 0, total_errors |-> 0,
               error_breakdown |-> <<>>]

\* C12 witness: summarize has returned for the empty list.
C12_Witness ==
    /\ pc = "done"
    /\ call.op = "summarize"
    /\ call.results = <<>>
    /\ ret.total_items = 0
    /\ DOMAIN ret.error_breakdown = {}

\* the word n-grams of a list of words, in order of occurrence
WordGrams(words, n) ==
    [k \in 1..(Len(words) - n + 1) |-> SubSeq(words, k, k + n - 1)]

\* The clipped matches of order n: the k-th hypothesis n-gram counts when it is
\* at most the c-th occurrence of its n-gram in the hypothesis, c being the
\* number of occurrences of that n-gram in the reference.
ClippedMatches(ref_words, hyp_words, n) ==
    LET ref_grams == WordGrams(ref_words, n)
        hyp_grams == WordGrams(hyp_words, n)
    IN  Cardinality({k \in DOMAIN hyp_grams :
            Cardinality({l \in 1..k : hyp_grams[l] = hyp_grams[k]})
                <= Cardinality({l \in DOMAIN ref_grams : ref_grams[l] = hyp_grams[k]})})

\* the number of n-grams of a list of words
TotalGrams(words, n) == Max2(0, Len(words) - n + 1)

\* C13: the built-in BLEU score is 0.0 exactly when one of the four clipped
\* n-gram precisions is 0 (a hypothesis without n-grams of some order has
\* precision 0 there), in particular for every hypothesis of fewer than four
\* words; otherwise it is strictly positive and at most 100, and it is 100
\* exactly when the four precisions are 1.  (ret is the product P of the
\* precisions, the score is 100 * P^(1/4).)
C13_BleuZeroAndRange ==
    (pc = "done" /\ call.op = "_simple_bleu") =>
        LET ref_words == split(call.reference)
            hyp_words == split(call.hypothesis)
            IsZero(n) == \/ TotalGrams(hyp_words, n) = 0
                         \/ ClippedMatches(ref_words, hyp_words, n) = 0
            IsOne(n) == /\ TotalGrams(hyp_words, n) > 0
                        /\ ClippedMatches(ref_words, hyp_words, n)
                               = TotalGrams(hyp_words, n)
        IN  /\ ret = Zero <=> \E n \in 1..4 : IsZero(n)
            /\ Len(hyp_words) < 4 => ret = Zero
            /\ ret # Zero => (0 < ret.num /\ ret.num <= ret.den)
            /\ ret = One <=> \A n \in 1..4 : IsOne(n)

\* C13 witness: a hypothesis of five words with a score strictly between 0
\* and 100, only one of its two 4-grams counting as a match.
C13_Witness ==
    /\ pc = "done"
    /\ call.op = "_simple_bleu"
    /\ Len(split(call.hypothesis)) = 5
    /\ ClippedMatches(split(call.reference), split(call.hypothesis), 4) = 1
    /\ ret # Zero
    /\ ret # One

\* the error type of a substitution
Substitution == "Substitution (possible homophone)"

\* the indices at which two texts of the same length differ
DifferAt(s1, s2) == {k \in 1..Len(s1) : s1[k] # s2[k]}

\* C14 as claimed: compare of a text that is a single whitespace-free word
\* with itself returns accuracy 100.0, no error and bleu 100.0.
C14_IdenticalWordBleu ==
    (/\ pc = "done"
     /\ call.reference = call.hypothesis
     /\ call.reference # <<>>
     /\ \A k \in 1..Len(call.reference) : ~isspace(call.reference[k])) =>
        /\ ret.accuracy = 10000
        /\ ret.errors = <<>>
        /\ ret.bleu = One

\* C15 as claimed: compare(Helmet, HelmetTranslated) returns a list of one
\* error, a substitution, with cer > 0 and accuracy < 100.
C15_Original ==
    (pc = "done" /\ call.reference = Helmet /\ call.hypothesis = HelmetTranslated) =>
        /\ Len(ret.errors) = 1
        /\ ret.errors[1].error_type = Substitution
        /\ ret.cer.num > 0
        /\ ret.accuracy < 10000

\* C15 as amended: compare(Helmet, HelmetTranslated) returns a list of two
\* one-character errors, the substitution of U+4E0B for U+304F at position 11
\* and the deletion of U+3060 at position 12, with cer = 2/14 and accuracy
\* 85.71.
C15_HelmetErrors ==
    (pc = "done" /\ call.reference = Helmet /\ call.hypothesis = HelmetTranslated) =>
        /\ ret.errors =
               << [position |-> 11, reference_text |-> "u304f",
                   hypothesis_text |-> "u4e0b", error_type |-> Substitution],
                  [position |-> 12, reference_text |-> "u3060",
                   hypothesis_text |-> "", error_type |-> "Deletion"] >>
        /\ ret.cer = Div(2, 14)
        /\ ret.accuracy = 8571

\* C15 witness: the pair has been compared and two errors were returned.
C15_Witness ==
    /\ pc = "done"
    /\ call.reference = Helmet
    /\ call.hypothesis = HelmetTranslated
    /\ Len(ret.errors) = 2

\* C16 as claimed: compare(Piping, PipingTranslated) returns exactly one
\* error, the substitution of U+6392 for U+914D, cer 0.25 and accuracy 75.0;
\* and two texts of the same length L that differ at exactly one index give
\* exactly one substitution error and cer = 1/L.
C16_Original ==
    pc = "done" =>
        /\ (call.reference = Piping /\ call.hypothesis = PipingTranslated) =>
               /\ Len(ret.errors) = 1
               /\ ret.errors[1].error_type = Substitution
               /\ ret.errors[1].reference_text = "u914d"
               /\ ret.errors[1].hypothesis_text = "u6392"
               /\ ret.cer = Div(1, 4)
               /\ ret.accuracy = 7500
        /\ (/\ Len(call.reference) = Len(call.hypothesis)
            /\ Cardinality(DifferAt(call.reference, call.hypothesis)) = 1) =>
               /\ Len(ret.errors) = 1
               /\ ret.errors[1].error_type = Substitution
               /\ ret.cer = Div(1, Len(call.reference))

\* C16 as amended: the same, the general statement being about two texts
\* whose normalized forms (the texts themselves when normalization is off)
\* have the same length L and differ at exactly one index: the one error
\* is the substitution of the two characters at that index.
C16_SingleSubstitution ==
    pc = "done" =>
        LET ref_normalized == _normalize_text(call.reference)
            hyp_normalized == _normalize_text(call.hypothesis)
        IN  /\ (call.reference = Piping /\ call.hypothesis = PipingTranslated) =>
                   /\ Len(ret.errors) = 1
                   /\ ret.errors[1].error_type = Substitution
                   /\ ret.errors[1].reference_text = "u914d"
                   /\ ret.errors[1].hypothesis_text = "u6392"
                   /\ ret.cer = Div(1, 4)
                   /\ ret.accuracy = 7500
            /\ (/\ Len(ref_normalized) = Len(hyp_normalized)
                /\ Cardinality(DifferAt(ref_normalized, hyp_normalized)) = 1) =>
                   LET k == CHOOSE k \in DifferAt(ref_normalized, hyp_normalized) : TRUE
                   IN  /\ Len(ret.errors) = 1
                       /\ ret.errors[1].error_type = Substitution
                       /\ ret.errors[1].reference_text = ref_normalized[k]
                       /\ ret.errors[1].hypothesis_text = hyp_normalized[k]
                       /\ ret.cer = Div(1, Len(ref_normalized))

\* C16 witness: the pair of the demonstration data has been compared and one
\* substitution was returned.
C16_Witness ==
    /\ pc = "done"
    /\ call.reference = Piping
    /\ call.hypothesis = PipingTranslated
    /\ Len(ret.errors) = 1
    /\ ret.errors[1].error_type = Substitution

\* the results of the two scenarios summarized in C17, in either order
ScenarioResults ==
    LET piping == compare(Piping, PipingTranslated, None)
        hydration == compare(Hydration, Hydration, None)
    IN  {<<piping, hydration>>, <<hydration, piping>>}

\* C17 as claimed: summarize of the results of compare(Piping,
\* PipingTranslated) and compare(Hydration, Hydration) returns total_items 2,
\* avg_accuracy 87.5 and an error_breakdown with the substitution type
\* mapped to 2 as its only key.
C17_Original ==
    (pc = "done" /\ call.op = "summarize" /\ call.results \in ScenarioResults) =>
        /\ ret.total_items = 2
        /\ ret.avg_accuracy = 8750
        /\ ret.error_breakdown = (Substitution :> 2)

\* C17 as amended: total_items 2, avg_accuracy 87.5, and an error_breakdown
\* with the substitution type mapped to 1 as its only key (total_errors 1).
C17_ScenarioSummary ==
    (pc = "done" /\ call.op = "summarize" /\ call.results \in ScenarioResults) =>
        /\ ret.total_items = 2
        /\ ret.avg_accuracy = 8750
        /\ ret.error_breakdown = (Substitution :> 1)
        /\ ret.total_errors = 1

\* C17 witness: the two results have been summarized.
C17_Witness ==
    /\ pc = "done"
    /\ call.op = "summarize"
    /\ call.results \in ScenarioResults
    /\ ret.total_items = 2
    /\ ret.avg_accuracy = 8750

\* C18 as claimed: compare("", "") returns accuracy 100.0, wer 0.0, cer 0.0
\* and no error; a reference empty after normalization with a hypothesis
\* non-empty after normalization gives cer 1.0, wer 1.0 and accuracy 0.0; a
\* non-empty reference with an empty hypothesis (after normalization) gives
\* cer 1.0 and accuracy 0.0.
C18_Original ==
    pc = "done" =>
        LET ref_normalized == _normalize_text(call.reference)
            hyp_normalized == _normalize_text(call.hypothesis)
        IN  /\ (call.reference = <<>> /\ call.hypothesis = <<>>) =>
                   /\ ret.accuracy = 10000
                   /\ ret.wer = Zero
                   /\ ret.cer = Zero
                   /\ ret.errors = <<>>
            /\ (ref_normalized = <<>> /\ hyp_normalized # <<>>) =>
                   /\ ret.cer = One
                   /\ ret.wer = One
                   /\ ret.accuracy = 0
            /\ (ref_normalized # <<>> /\ hyp_normalized = <<>>) =>
                   /\ ret.cer = One
                   /\ ret.accuracy = 0

\* C18 as amended: the same, but the wer of a reference empty after
\* normalization is 1.0 only when the hypothesis holds a word; it is 0.0 for
\* a hypothesis of whitespace only, which normalization, when it is off,
\* leaves non-empty.
C18_Degenerate ==
    pc = "done" =>
        LET ref_normalized == _normalize_text(call.reference)
            hyp_normalized == _normalize_text(call.hypothesis)
        IN  /\ (call.reference = <<>> /\ call.hypothesis = <<>>) =>
                   /\ ret.accuracy = 10000
                   /\ ret.wer = Zero
                   /\ ret.cer = Zero
                   /\ ret.errors = <<>>
            /\ (ref_normalized = <<>> /\ hyp_normalized # <<>>) =>
                   /\ ret.cer = One
                   /\ ret.wer = IF NonSpace(hyp_normalized) # <<>> THEN One ELSE Zero
                   /\ ret.accuracy = 0
                   /\ normalize => ret.wer = One
            /\ (ref_normalized # <<>> /\ hyp_normalized = <<>>) =>
                   /\ ret.cer = One
                   /\ ret.accuracy = 0

\* C18 witness: with normalization on, a reference of whitespace only has
\* been compared with a hypothesis that holds a word.
C18_Witness ==
    /\ pc = "done"
    /\ normalize
    /\ call.reference = <<" ", " ">>
    /\ call.hypothesis = <<"a", " ", "b">>
    /\ ret.cer = One
    /\ ret.wer = One
    /\ ret.accuracy = 0

\* C19: when the pairs of a batch are compared by workers that share one
\* TextComparator, in any interleaving and completion order, the results
\* taken in input order are the list compare_batch returns; no step of a
\* compare call changes the TextComparator, another worker's local
\* variables, or a result slot other than the one of its own pair.
C19_ParallelAsSequential ==
    /\ []((pc = "done" /\ call.op = "parallel") =>
             ret = compare_batch(call.pairs, NoList))
    /\ [][/\ normalize' = normalize
          /\ (pc = "running" /\ pc' = "running") =>
                 \E w \in Workers :
                    /\ \A v \in Workers \ {w} : frames'[v] = frames[v]
                    /\ \A k \in 1..Len(call.pairs) :
                           ret'[k] # ret[k] =>
                               (frames[w].at = "normalized" /\ frames[w].index = k)
       ]_vars

\* C19 witness: with normalization on, two pairs that it changes have been
\* compared by the workers, with different results.
C19_Witness ==
    /\ pc = "done"
    /\ call.op = "parallel"
    /\ normalize
    /\ Len(call.pairs) = 2
    /\ call.pairs[1] = << <<" ", "b">>, <<"a">> >>
    /\ call.pairs[2] = << <<"a">>, <<" ", "b">> >>
    /\ ret[1] # ret[2]
    /\ ret[1].cer = One

\* C20 as claimed: a run of the pipeline with use_mock = True has its
\* translator in mock mode and never reaches _api_translate, whatever
\* endpoint is configured.
C20_MockNeverCallsApi ==
    (pc # "idle" /\ call.op = "run_test_pipeline" /\ call.use_mock) =>
        /\ call.audio_paths # <<>> => ret.translator._mock_mode
        /\ \A k \in 1..Len(ret.calls) : ret.calls[k] # "_api_translate"


\* the three candidate costs of the cell (i, j) of dp: by a deletion, by an
\* insertion, by a substitution
CandidateCosts(dp, i, j) ==
    <<dp[<<i - 1, j>>] + 1, dp[<<i, j - 1>>] + 1, dp[<<i - 1, j - 1>>] + 1>>

Least3(c) == Min2(c[1], Min2(c[2], c[3]))

\* C21: in the tables of get_error_details, every cell (i, j) with i, j >= 1
\* whose two characters differ holds the least of the three candidate costs
\* and the first operation that attains it, in the order delete, insert,
\* substitute; a cell whose characters are equal holds a match with the cost
\* of its diagonal neighbour; and the tables are those of the two inputs
\* alone, the backtrace leaving them as they were built.
C21_TieBreakOrder ==
    (pc # "idle" /\ call.op = "get_error_details") =>
        LET r == call.reference
            h == call.hypothesis
            c(i, j) == CandidateCosts(ret.dp, i, j)
        IN  /\ \A i \in 1..Len(r), j \in 1..Len(h) :
                   IF r[i] = h[j]
                   THEN /\ ret.ops[<<i, j>>] = <<"match", r[i], h[j]>>
                        /\ ret.dp[<<i, j>>] = ret.dp[<<i - 1, j - 1>>]
                   ELSE /\ ret.dp[<<i, j>>] = Least3(c(i, j))
                        /\ ret.ops[<<i, j>>] =
                               IF c(i, j)[1] = Least3(c(i, j))
                               THEN <<"delete", r[i], "">>
                               ELSE IF c(i, j)[2] = Least3(c(i, j))
                               THEN <<"insert", "", h[j]>>
                               ELSE <<"substitute", r[i], h[j]>>
            /\ ret.dp = error_tables(r, h).dp
            /\ ret.ops = error_tables(r, h).ops

\* C21 witness: tables with a cell where the three costs are equal and the
\* deletion is recorded, a cell where the insertion and the substitution are
\* the least and the insertion is recorded, and a cell where the substitution
\* alone is the least.
C21_Witness ==
    /\ pc = "backtrace"
    /\ LET m == Len(call.reference)
           n == Len(call.hypothesis)
           c(i, j) == CandidateCosts(ret.dp, i, j)
       IN  /\ \E i \in 1..m, j \in 1..n :
                  /\ c(i, j)[1] = c(i, j)[2] /\ c(i, j)[2] = c(i, j)[3]
                  /\ ret.ops[<<i, j>>][1] = "delete"
           /\ \E i \in 1..m, j \in 1..n :
                  /\ c(i, j)[2] = c(i, j)[3] /\ c(i, j)[2] < c(i, j)[1]
                  /\ ret.ops[<<i, j>>][1] = "insert"
           /\ \E i \in 1..m, j \in 1..n :
                  /\ c(i, j)[3] < c(i, j)[1] /\ c(i, j)[3] < c(i, j)[2]
                  /\ ret.ops[<<i, j>>][1] = "substitute"

\* the characters of a text
CharsOf(text) == {text[k] : k \in 1..Len(text)}

\* C22: every error returned by get_error_details is a deletion, of one
\* character of the reference with the empty hypothesis text, or an
\* insertion, of one character of the hypothesis with the empty reference
\* text, or a substitution, of one character of the reference by a different
\* character of the hypothesis, and is labelled as such; a round of the
\* backtrace on a matching cell emits no error, every other round emits one.
C22_ErrorShapes ==
    /\ [](pc = "done" =>
            \A k \in 1..Len(ret.loop.errors) :
                LET e == ret.loop.errors[k]
                IN  \/ /\ e.type = "delete"
                       /\ e.error_type = "Deletion"
                       /\ e.reference \in CharsOf(call.reference)
                       /\ e.hypothesis = ""
                    \/ /\ e.type = "insert"
                       /\ e.error_type = "Insertion"
                       /\ e.reference = ""
                       /\ e.hypothesis \in CharsOf(call.hypothesis)
                    \/ /\ e.type = "substitute"
                       /\ e.error_type = "Substitution (possible homophone)"
                       /\ e.reference \in CharsOf(call.reference)
                       /\ e.hypothesis \in CharsOf(call.hypothesis)
                       /\ e.reference # e.hypothesis)
    /\ [][(pc = "backtrace" /\ pc' = "backtrace") =>
             IF ret.ops[<<ret.loop.i, ret.loop.j>>][1] = "match"
             THEN ret'.loop.errors = ret.loop.errors
             ELSE Len(ret'.loop.errors) = Len(ret.loop.errors) + 1
       ]_vars

\* C22 witness: a call has returned a deletion, an insertion and a
\* substitution after a backtrace that also passed a matching cell.
C22_Witness ==
    /\ pc = "done"
    /\ {ret.loop.errors[k].type : k \in 1..Len(ret.loop.errors)}
           = {"delete", "insert", "substitute"}
    /\ ret.loop.rounds > Len(ret.loop.errors)

\* C23: the number of errors compare returns is the final cell dp[m][n] of
\* the table get_error_details builds for the normalized texts (m and n their
\* lengths), which is also the length of the list get_error_details returns
\* for them; when the normalized reference is not empty, the cer of the
\* result is that number divided by the length of the normalized reference.
C23_ErrorCountIsDistance ==
    pc = "done" =>
        LET ref_normalized == _normalize_text(call.reference)
            hyp_normalized == _normalize_text(call.hypothesis)
            m == Len(ref_normalized)
            n == Len(hyp_normalized)
        IN  /\ Len(ret.errors) = error_tables(ref_normalized, hyp_normalized).dp[<<m, n>>]
            /\ Len(ret.errors) = Len(get_error_details(ref_normalized, hyp_normalized))
            /\ m > 0 => ret.cer = Div(Len(ret.errors), m)

\* C23 witness: two errors against a normalized reference of two characters,
\* shorter than the reference passed, one of the errors found on the border
\* of the table.
C23_Witness ==
    /\ pc = "done"
    /\ normalize
    /\ call.reference = <<"a", "b", " ">>
    /\ call.hypothesis = <<"b", "a">>
    /\ Len(ret.errors) = 2
    /\ ret.cer = One

\* C24: for all texts s1 and s2, the rolling-row _levenshtein_distance(s1, s2),
\* which swaps its arguments when s1 is the shorter, returns the final cell
\* dp[m][n] of the full table get_error_details builds for (s1, s2), and the
\* value of _levenshtein_distance(s2, s1).
C24_RollingRowIsTable ==
    (pc = "done" /\ call.op = "_levenshtein_distance") =>
        LET s1 == call.reference
            s2 == call.hypothesis
        IN  /\ ret = error_tables(s1, s2).dp[<<Len(s1), Len(s2)>>]
            /\ ret = _levenshtein_distance(s2, s1)

\* C24 witness: the first text is the shorter, so the arguments were swapped,
\* and the distance is neither 0 nor the length of the longer text.
C24_Witness ==
    /\ pc = "done"
    /\ call.op = "_levenshtein_distance"
    /\ call.reference = <<"a">>
    /\ call.hypothesis = <<"b", "a", " ">>
    /\ ret = 2

\* C25 as claimed: every error returned by get_error_details for texts of
\* lengths m and n has a position p with 1 <= p <= max(m, n).
C25_PositionInRange ==
    (pc = "done" /\ call.op = "get_error_details") =>
        \A k \in 1..Len(ret.loop.errors) :
            /\ 1 <= ret.loop.errors[k].position
            /\ ret.loop.errors[k].position
                   <= Max2(Len(call.reference), Len(call.hypothesis))

\* C26: the backtrace of get_error_details terminates, for all inputs, with
\* i = 0 and j = 0 after at most m + n rounds: every cell it visits other
\* than (0, 0) holds a recorded operation, every round strictly decreases
\* i + j and keeps i and j at 0 or above, and no round leaves the loop by the
\* break.
C26_BacktraceTerminates ==
    /\ (pc = "backtrace") ~> (pc = "done")
    /\ []((pc = "backtrace" /\ (ret.loop.i > 0 \/ ret.loop.j > 0)) =>
             ret.ops[<<ret.loop.i, ret.loop.j>>][1]
                 \in {"match", "delete", "insert", "substitute"})
    /\ [](pc \in {"backtrace", "done"} =>
             /\ ~ret.loop.broke
             /\ ret.loop.i >= 0 /\ ret.loop.j >= 0
             /\ ret.loop.rounds <= Len(call.reference) + Len(call.hypothesis))
    /\ [](pc = "done" => (ret.loop.i = 0 /\ ret.loop.j = 0))
    /\ [][(pc = "backtrace" /\ pc' = "backtrace") =>
             /\ ret'.loop.i + ret'.loop.j < ret.loop.i + ret.loop.j
             /\ ret'.loop.rounds = ret.loop.rounds + 1
       ]_vars

\* C26 witness: a call on two texts of two characters has returned after
\* three rounds, its backtrace having passed both borders of the table.
C26_Witness ==
    /\ pc = "done"
    /\ Len(call.reference) = 2
    /\ Len(call.hypothesis) = 2
    /\ ret.loop.rounds = 3
    /\ ret.loop.i = 0
    /\ ret.loop.j = 0

\* a is a subsequence of b: b with some of its elements left out
RECURSIVE IsSubsequence(_, _)
IsSubsequence(a, b) ==
    IF a = <<>> THEN TRUE
    ELSE IF b = <<>> THEN FALSE
    ELSE IF Head(a) = Head(b) THEN IsSubsequence(Tail(a), Tail(b))
    ELSE IsSubsequence(a, Tail(b))

\* the errors of a list whose operation is one of types, in list order
ErrorsOfType(errors, types) == SelectSeq(errors, LAMBDA e : e.type \in types)

\* C27: the errors get_error_details returns for texts r and h of lengths m
\* and n hold m - n more deletions than insertions; the reference characters
\* of its deletions and substitutions, in list order, are a subsequence of r,
\* and the hypothesis characters of its insertions and substitutions, in list
\* order, are a subsequence of h.
C27_ErrorsFollowTexts ==
    (pc = "done" /\ call.op = "get_error_details") =>
        LET errors == ret.loop.errors
            from_r == ErrorsOfType(errors, {"delete", "substitute"})
            from_h == ErrorsOfType(errors, {"insert", "substitute"})
        IN  /\ Len(ErrorsOfType(errors, {"delete"}))
                   - Len(ErrorsOfType(errors, {"insert"}))
               = Len(call.reference) - Len(call.hypothesis)
            /\ IsSubsequence([k \in 1..Len(from_r) |-> from_r[k].reference],
                             call.reference)
            /\ IsSubsequence([k \in 1..Len(from_h) |-> from_h[k].hypothesis],
                             call.hypothesis)

\* C27 witness: a reference of three and a hypothesis of two characters have
\* given two deletions of different characters and one insertion.
C27_Witness ==
    /\ pc = "done"
    /\ Len(call.reference) = 3
    /\ Len(call.hypothesis) = 2
    /\ LET deleted == ErrorsOfType(ret.loop.errors, {"delete"})
       IN  /\ Len(deleted) = 2
           /\ deleted[1].reference # deleted[2].reference
    /\ Len(ErrorsOfType(ret.loop.errors, {"insert"})) = 1

\* C28: _normalize_text is idempotent, with normalization on and off: the
\* normalized form of an argument of compare is its own normalized form;
\* and compare on the normalized forms of its two arguments returns the
\* accuracy, wer, cer, bleu and errors it returns on the arguments.
C28_NormalizeIdempotent ==
    pc = "done" =>
        LET ref_normalized == _normalize_text(call.reference)
            hyp_normalized == _normalize_text(call.hypothesis)
        IN  /\ _normalize_text(ref_normalized) = ref_normalized
            /\ _normalize_text(hyp_normalized) = hyp_normalized
            /\ Metrics(compare(ref_normalized, hyp_normalized, call.source_info))
                   = Metrics(ret)

\* C28 witness: with normalization on, two texts with runs of spaces, tabs
\* and full-width spaces, both changed by the normalization, have been
\* compared.
C28_Witness ==
    /\ pc = "done"
    /\ normalize
    /\ call.reference = <<"a", " ", FullWidthSpace, " ", "b">>
    /\ call.hypothesis = <<FullWidthSpace, "a", "\t">>
    /\ _normalize_text(call.reference) = <<"a", " ", "b">>
    /\ _normalize_text(call.hypothesis) = <<"a">>
    /\ ret.cer = Div(2, 3)

\* the three labels _classify_error gives to an operation that is an error
ErrorLabels == {"Deletion", "Insertion", "Substitution (possible homophone)"}

\* C29: the error_type of every ErrorDetail of a result of compare is one of
\* the three labels deletion, insertion and substitution (possible homophone),
\* never the fallback label `unknown`; so the keys of the error_breakdown
\* summarize builds from results of compare are among those three labels.
C29_ErrorLabels ==
    (pc = "done" /\ call.op = "summarize") =>
        /\ \A k \in 1..Len(call.results) :
               \A e \in 1..Len(call.results[k].errors) :
                   /\ call.results[k].errors[e].error_type \in ErrorLabels
                   /\ call.results[k].errors[e].error_type # "Unknown"
        /\ DOMAIN ret.error_breakdown \subseteq ErrorLabels
        /\ "Unknown" \notin DOMAIN ret.error_breakdown

\* C29 witness: a summary whose error_breakdown has the three labels as its
\* keys.
C29_Witness ==
    /\ pc = "done"
    /\ call.op = "summarize"
    /\ DOMAIN ret.error_breakdown = ErrorLabels
    /\ ret.total_errors >= 3

\* C30: after its construction and after every set_credentials call, a
\* FeloTranslator is in mock mode exactly when its api_endpoint is empty,
\* whatever its api_key; a translate_audio call on an audio file that exists
\* comes to _mock_translate exactly when the translator is in mock mode and
\* to _api_translate otherwise; on a file that does not exist it raises
\* FileNotFoundError in either mode, reaching neither.
C30_MockModeIffNoEndpoint ==
    /\ [](pc = "constructed" =>
             /\ is_mock_mode(ret.translator) <=> ret.translator.api_endpoint = ""
             /\ call.op # "translate_audio" =>
                    /\ ret.translator.api_endpoint = call.api_endpoint
                    /\ ret.translator.api_key = call.api_key)
    /\ [][(pc = "constructed" /\ call'.op = "translate_audio"
             /\ Len(ret'.calls) = Len(ret.calls) + 1) =>
             LET made == ret'.calls[Len(ret'.calls)]
             IN  /\ ret'.translator = ret.translator
                 /\ made.outcome =
                        IF ~made.audio_exists THEN "FileNotFoundError"
                        ELSE IF is_mock_mode(ret.translator) THEN "_mock_translate"
                        ELSE "_api_translate"
                 /\ made.outcome = "_mock_translate" =>
                        ret.translator.api_endpoint = ""
                 /\ made.outcome = "_api_translate" =>
                        ret.translator.api_endpoint # ""
       ]_vars

\* C30 witness: a translator constructed with an endpoint has translated
\* through the API, was then given an empty endpoint with a key, and has
\* translated in mock mode.
C30_Witness ==
    /\ pc = "constructed"
    /\ ret.credentials_set = 1
    /\ ret.translator.api_endpoint = ""
    /\ ret.translator.api_key = "key"
    /\ is_mock_mode(ret.translator)
    /\ Len(ret.calls) = 2
    /\ ret.calls[1].outcome = "_api_translate"
    /\ ret.calls[2].outcome = "_mock_translate"

====
